---- MODULE Spec2Model ----
(***************************************************************************)
(* Model of the UniTrust demo runners (acapy/demo/runners):                *)
(*   uni_reg_a.py   registrar, single holder pointer                       *)
(*   uni_reg_c.py   registrar, multi-holder registry                       *)
(*   uni_admin_a.py approving administrator                                *)
(* Each script is one asyncio process: the operator menu loop (main) is a  *)
(* coroutine that is suspended at every await, and every webhook delivery  *)
(* runs a handler coroutine on the same loop.  main_pc is the place where  *)
(* main is suspended; conn_tasks holds the handle_connections coroutines   *)
(* that are suspended in their connection lookup.                          *)
(* The variable script selects which of the scripts a behaviour is a run   *)
(* of; it never changes.                                                   *)
(***************************************************************************)
EXTENDS Integers, Sequences, FiniteSets, TLC

\* ------------------------------------------------------------------ bounds
\* A run of uni_reg_a sees connection ids 1..MaxConnsA and draws at most
\* MaxSubmitsA approval ids; a run of uni_reg_c sees 1..MaxConnsC and draws at
\* most MaxSubmitsC.
MaxConnsA == 2
MaxSubmitsA == 2
MaxConnsC == 2
MaxSubmitsC == 1
MaxProfilesA == 2    \* distinct answers the operator gives at the student prompts
MaxProfilesC == 1
MaxConnsAdmin == 2   \* a run of uni_admin_a sees connection ids 1..MaxConnsAdmin
MaxIdsAdmin == 1     \* ... and approval ids 1..MaxIdsAdmin in the requests it receives
MaxRequestsAdmin == 2 \* ... and receives at most MaxRequestsAdmin approval requests
MaxInflight == 1     \* handle_connections coroutines suspended at the same time
MaxIssued == 1       \* cap of the credentials_issued counter
MaxConnsCompany == 2 \* a run of company_a sees connection ids 1..MaxConnsCompany
MaxProofsCompany == 1   \* cap of the proofs_requested counter
MaxVerifiedCompany == 1 \* cap of the proofs_verified counter

None == 0            \* Python None (falsy, like the id 0 nobody hands out)

Scripts == {"uni_reg_a", "uni_reg_c", "uni_admin_a", "company_a"}

\* ---------------------------------------------------------- Python dicts
\* A dict is the sequence of its items [k, v] in insertion order.
Keys(d) == {d[i].k : i \in DOMAIN d}
Has(d, key) == \E i \in DOMAIN d : d[i].k = key
Get(d, key) == d[CHOOSE i \in DOMAIN d : d[i].k = key].v
\* d[key] = value: an existing key keeps its position, a new one goes last
Put(d, key, value) ==
    IF Has(d, key)
    THEN [i \in DOMAIN d |-> IF d[i].k = key THEN [k |-> key, v |-> value] ELSE d[i]]
    ELSE Append(d, [k |-> key, v |-> value])
\* a del that leaves the item in place
Del_keeps_item(d, key) == d
\* del d[key]
Del(d, key) == SelectSeq(d, LAMBDA e : e.k # key)
\* list(d.keys())
KeyList(d) == [i \in DOMAIN d |-> d[i].k]

\* ------------------------------------------------------------------ state
VARIABLES
    script,                \* which runner this behaviour is a run of
    connection_id,         \* self.connection_id
    holder_connection_id,  \* self.holder_connection_id
    admin_connection_id,   \* self.admin_connection_id
    pending_credentials,   \* self.pending_credentials  {approval_id: {student_data, status}}
    approval_responses,    \* self.approval_responses   {approval_id: response}
    holder_connections,    \* self.holder_connections   {connection_id: {credentials_issued, status}}
    uuids,                 \* number of uuid4 values drawn so far
    main_pc,               \* where the menu loop is suspended
    main_local,            \* local variables of the suspended menu command
    conn_tasks,            \* connection ids whose handle_connections awaits its lookup
    offers,                \* offers the agent accepted: POST /issue-credential-2.0/send-offer
    pending_approvals,     \* uni_admin_a: self.pending_approvals {approval_id: {student_data, registrar_connection_id}}
    registrar_connection_id, \* uni_admin_a: self.registrar_connection_id
    responses,             \* uni_admin_a: approval responses the agent accepted for sending
    requests,              \* uni_admin_a: number of approval requests delivered so far
    closed_while_awaited,  \* uni_reg_c: ids in conn_tasks for which a 'deleted' or 'abandoned'
                           \* event was handled since the handler began to await (history)
    last                   \* the handler or command step that ran last, and its outcome

\* the ids the environment of the running script draws from
MaxConns == IF script = "uni_reg_c" THEN MaxConnsC
            ELSE IF script = "uni_reg_a" THEN MaxConnsA
            ELSE IF script = "company_a" THEN MaxConnsCompany ELSE MaxConnsAdmin
MaxSubmits == IF script = "uni_reg_c" THEN MaxSubmitsC
              ELSE IF script = "uni_reg_a" THEN MaxSubmitsA ELSE MaxRequestsAdmin
Conns == 1..MaxConns
ApprovalIds == 0..MaxSubmits      \* 0: an id that was never generated
Profiles == 1..(IF script = "uni_reg_c" THEN MaxProfilesC ELSE MaxProfilesA)

vars == <<script, connection_id, holder_connection_id, admin_connection_id,
          pending_credentials, approval_responses, holder_connections, uuids,
          main_pc, main_local, conn_tasks, offers,
          pending_approvals, registrar_connection_id, responses, requests,
          closed_while_awaited, last>>

admin_vars == <<pending_approvals, registrar_connection_id, responses, requests>>
registrar_only_vars == <<holder_connection_id, admin_connection_id, pending_credentials,
                         approval_responses, holder_connections, conn_tasks, offers>>

NoLocal == [option |-> "", approval_id |-> None, student_data |-> <<>>, conn |-> None,
            attributes |-> <<>>, approved |-> FALSE, polls |-> 0]

Did(op, key, res) == [op |-> op, key |-> key, res |-> res]
\* ... and the number of log_msg calls the step made, for the steps whose log
\* lines a property counts
Logged(op, key, res, logs) == [op |-> op, key |-> key, res |-> res, logs |-> logs]
\* between two steps the event loop has control; a step that only writes a
\* log line no property is about leaves no record either
Idle == Did("idle", None, "")

IsRegistrar == script \in {"uni_reg_a", "uni_reg_c"}

\* the event loop can run a step: the process has not left its menu loop
Ready == last = Idle /\ main_pc \notin {"terminate", "exited"}

Init ==
    /\ script \in Scripts
    /\ connection_id = None
    /\ holder_connection_id = None
    /\ admin_connection_id = None
    /\ pending_credentials = <<>>
    /\ approval_responses = <<>>
    /\ holder_connections = <<>>
    /\ uuids = 0
    /\ main_pc = "menu"
    /\ main_local = NoLocal
    /\ conn_tasks = {}
    /\ offers = <<>>
    /\ pending_approvals = <<>>
    /\ registrar_connection_id = None
    /\ responses = <<>>
    /\ requests = 0
    /\ closed_while_awaited = {}
    /\ last = Idle

\* ------------------------------------------------- connection classification
\* Labels are strings, modelled as sequences of characters.
NullLabel == <<"None">>           \* the field is present with value null
Labels == { <<>>,
            <<"U", "n", "i", " ", "A", "d", "M", "I", "N">>,
            <<"a", "l", "i", "c", "e">>,
            NullLabel }
\* str.lower() on the characters the labels use
lower_char(c) ==
    CASE c = "A" -> "a" [] c = "D" -> "d" [] c = "M" -> "m" [] c = "I" -> "i"
      [] c = "N" -> "n" [] c = "U" -> "u" [] OTHER -> c
lower(s) == [i \in DOMAIN s |-> lower_char(s[i])]
\* sub in s
Contains(s, sub) ==
    \E i \in 1..(Len(s) - Len(sub) + 1) : SubSeq(s, i, i + Len(sub) - 1) = sub
admin == <<"a", "d", "m", "i", "n">>

\* the outcomes of GET /connections/{id}
LookupResults ==
    [ok : {FALSE}, their_label : {<<>>}, alias : {<<>>}]
        \cup [ok : {TRUE}, their_label : Labels, alias : Labels]

\* classify without str.lower(): the substring test made case sensitive
classify_case_sensitive(r) ==
    IF ~r.ok THEN "error"
    ELSE IF r.their_label = NullLabel THEN "error"
    ELSE IF Contains(r.their_label, admin) THEN "admin"
    ELSE IF r.alias = NullLabel THEN "error"
    ELSE IF Contains(r.alias, admin) THEN "admin"
    ELSE "holder"

\* uni_reg_a.py 187-211 / uni_reg_c.py 273-298: which branch of the try the
\* lookup result takes.  "error" is the except branch: the GET failed, or
\* .lower() was called on None.
classify(r) ==
    IF ~r.ok THEN "error"
    ELSE IF r.their_label = NullLabel THEN "error"
    ELSE IF Contains(lower(r.their_label), admin) THEN "admin"
    ELSE IF r.alias = NullLabel THEN "error"
    ELSE IF Contains(lower(r.alias), admin) THEN "admin"
    ELSE "holder"

\* ------------------------------------------------------ holder registry
\* [conn_id for conn_id, info in holder_connections.items() if info['status'] == 'active']
active_holder_ids(hc) == KeyList(SelectSeq(hc, LAMBDA e : e.v.status = "active"))

\* get_active_holders that does not look at the status
get_active_holders_any_status == holder_connections

\* get_active_holders(): the active entries, in insertion order
get_active_holders == SelectSeq(holder_connections, LAMBDA e : e.v.status = "active")

\* The registry operations work on the triple they read and write.
Registry == [holder_connections |-> holder_connections,
             connection_id |-> connection_id,
             holder_connection_id |-> holder_connection_id]

add_holder_connection(reg, c) ==
    LET hc == Put(reg.holder_connections, c,
                  [credentials_issued |-> 0, status |-> "active"])
    IN IF reg.connection_id = None
       THEN [holder_connections |-> hc, connection_id |-> c, holder_connection_id |-> c]
       ELSE [reg EXCEPT !.holder_connections = hc]

\* remove_holder_connection without the update of the primary connection
remove_holder_connection_keeps_primary(reg, c) ==
    IF Has(reg.holder_connections, c)
    THEN [reg EXCEPT !.holder_connections =
             Put(reg.holder_connections, c,
                 [Get(reg.holder_connections, c) EXCEPT !.status = "terminated"])]
    ELSE reg

\* remove_holder_connection that takes the last active holder, not the first
remove_holder_connection_last_found(reg, c) ==
    IF Has(reg.holder_connections, c)
    THEN LET info == Get(reg.holder_connections, c)
             hc == Put(reg.holder_connections, c, [info EXCEPT !.status = "terminated"])
             active_holders == active_holder_ids(hc)
             primary == IF active_holders # <<>> THEN active_holders[Len(active_holders)]
                        ELSE None
         IN IF reg.connection_id = c
            THEN [holder_connections |-> hc, connection_id |-> primary,
                  holder_connection_id |-> primary]
            ELSE [reg EXCEPT !.holder_connections = hc]
    ELSE reg

remove_holder_connection(reg, c) ==
    IF Has(reg.holder_connections, c)
    THEN LET info == Get(reg.holder_connections, c)
             hc == Put(reg.holder_connections, c, [info EXCEPT !.status = "terminated"])
             active_holders == active_holder_ids(hc)
             primary == IF active_holders # <<>> THEN active_holders[1] ELSE None
         IN IF reg.connection_id = c
            THEN [holder_connections |-> hc, connection_id |-> primary,
                  holder_connection_id |-> primary]
            ELSE [reg EXCEPT !.holder_connections = hc]
    ELSE reg

\* handle_connections keeps the legacy pointers after add_holder_connection
keep_backward_compatibility(reg, c) ==
    IF reg.holder_connection_id = None
    THEN [reg EXCEPT !.holder_connection_id = c, !.connection_id = c]
    ELSE reg

get_holder_connection_id ==
    IF script = "uni_reg_c" /\ active_holder_ids(holder_connections) # <<>>
    THEN active_holder_ids(holder_connections)[1]
    ELSE IF holder_connection_id # None THEN holder_connection_id
    ELSE connection_id

SetRegistry(reg) ==
    /\ holder_connections' = reg.holder_connections
    /\ connection_id' = reg.connection_id
    /\ holder_connection_id' = reg.holder_connection_id

\* ------------------------------------------------------ webhook: connections
\* handle_connections up to its first await (the whole handler when the state
\* is not "active")
ConnStates == {"request", "active", "abandoned", "deleted"}

handle_connections(c, state) ==
    /\ IsRegistrar /\ Ready
    /\ IF state = "active"
       THEN /\ c \notin conn_tasks
            /\ Cardinality(conn_tasks) < MaxInflight
            /\ conn_tasks' = conn_tasks \cup {c}
            /\ UNCHANGED <<holder_connections, connection_id, holder_connection_id>>
       ELSE /\ UNCHANGED conn_tasks
            /\ IF script = "uni_reg_c" /\ state \in {"abandoned", "deleted"}
                  /\ Has(holder_connections, c)
               THEN SetRegistry(remove_holder_connection(Registry, c))
               ELSE UNCHANGED <<holder_connections, connection_id, holder_connection_id>>
    /\ last' = IF state = "active" THEN Did("handle_connections", c, "lookup")
                ELSE IF script = "uni_reg_c" /\ state \in {"abandoned", "deleted"}
                        /\ Has(holder_connections, c)
                THEN Did("handle_connections", c, "terminated")
                ELSE Idle
    /\ closed_while_awaited' =
          IF script = "uni_reg_c" /\ state \in {"abandoned", "deleted"} /\ c \in conn_tasks
          THEN closed_while_awaited \cup {c} ELSE closed_while_awaited
    /\ UNCHANGED <<script, admin_vars, admin_connection_id, pending_credentials, approval_responses,
                   uuids, main_pc, main_local, offers>>

\* handle_connections resumed with the result of GET /connections/{conn_id}
handle_connections_resume(c, r) ==
    /\ IsRegistrar /\ Ready
    /\ c \in conn_tasks
    /\ conn_tasks' = conn_tasks \ {c}
    /\ LET role == classify(r) IN
       /\ admin_connection_id' = IF role = "admin" THEN c ELSE admin_connection_id
       /\ IF role = "admin"
          THEN UNCHANGED <<holder_connections, connection_id, holder_connection_id>>
          ELSE IF script = "uni_reg_c"
               THEN SetRegistry(keep_backward_compatibility(
                                    add_holder_connection(Registry, c), c))
               ELSE SetRegistry(keep_backward_compatibility(Registry, c))
       /\ last' = Did("handle_connections", c, role)
    /\ closed_while_awaited' = closed_while_awaited \ {c}
    /\ UNCHANGED <<script, admin_vars, pending_credentials, approval_responses,
                   uuids, main_pc, main_local, offers>>

\* ------------------------------------------------ webhook: issue_credential_v2_0
\* uni_reg_c only (uni_reg_a does not override the handler).  The awaits of the
\* handler come after its last write to the registry, so it is one step.
\* credential_exchanges is written here and read only to pick a log line; it
\* is not part of the model.
CredExStates == {"offer-sent", "request-received", "done", "abandoned"}

\* terminate_holder_connection that deletes the connection first and marks
\* the holder only after the DELETE returned
terminate_holder_connection_delete_first(reg, c, delete_ok) ==
    IF delete_ok THEN remove_holder_connection(reg, c) ELSE reg

\* terminate_holder_connection: mark terminated locally, then DELETE the
\* connection; a failed DELETE is caught and logged, whatever delete_ok is the
\* registry is the one the local mark left.
terminate_holder_connection(reg, c, delete_ok) == remove_holder_connection(reg, c)

handle_issue_credential_v2_0(c, state, delete_ok) ==
    /\ script = "uni_reg_c" /\ Ready
    /\ IF state = "done" /\ c # None /\ Has(holder_connections, c)
       THEN LET info == Get(holder_connections, c)
                counted == [Registry EXCEPT !.holder_connections =
                               Put(holder_connections, c,
                                   [info EXCEPT !.credentials_issued = @ + 1])]
            IN /\ info.credentials_issued < MaxIssued
               /\ SetRegistry(terminate_holder_connection(counted, c, delete_ok))
               /\ last' = Did("handle_issue_credential_v2_0", c,
                              IF delete_ok THEN "terminated" ELSE "delete_failed")
       ELSE /\ delete_ok /\ c = None
            /\ UNCHANGED <<holder_connections, connection_id, holder_connection_id>>
            /\ last' = Idle
    /\ UNCHANGED <<script, closed_while_awaited, admin_vars, admin_connection_id, pending_credentials, approval_responses,
                   uuids, main_pc, main_local, conn_tasks, offers>>

\* ------------------------------------------------------ webhook: basicmessages
\* The content of a basic message, as the text it is.
Comments == {""}
Contents ==
    [kind : {"empty", "text", "json"}, type : {""}, approval_id : {None},
     approved : {FALSE}, comments : {""}]
        \cup [kind : {"json"}, type : {"credential_approval_response"},
              approval_id : ApprovalIds, approved : BOOLEAN, comments : Comments]

\* json.loads that reads text that is not JSON as an approval response
json_loads_lenient(content) ==
    [ok |-> content.kind # "empty", type |-> "credential_approval_response",
     approval_id |-> content.approval_id, approved |-> content.approved,
     comments |-> content.comments]

\* json.loads(content): a JSONDecodeError for text that is not JSON, else the
\* decoded object (here always a dict, or a non-dict for type "")
json_loads(content) ==
    IF content.kind = "json"
    THEN [ok |-> TRUE, type |-> content.type, approval_id |-> content.approval_id,
          approved |-> content.approved, comments |-> content.comments]
    ELSE [ok |-> FALSE, type |-> "", approval_id |-> None,
          approved |-> FALSE, comments |-> ""]

\* handle_approval_response without the `approval_id in self.pending_credentials`
\* test around the store of the response
handle_approval_response_unguarded(pc, ar, response) ==
    [pending_credentials |->
         IF Has(pc, response.approval_id)
         THEN Put(pc, response.approval_id,
                  [Get(pc, response.approval_id) EXCEPT
                      !.status = IF response.approved THEN "approved" ELSE "rejected"])
         ELSE pc,
     approval_responses |->
         Put(ar, response.approval_id,
             [approved |-> response.approved, comments |-> response.comments]),
     res |-> IF Has(pc, response.approval_id) THEN "recorded" ELSE "not_found"]

\* handle_approval_response that stores the response and leaves the record's
\* status as it was
handle_approval_response_keeps_status(pc, ar, response) ==
    IF Has(pc, response.approval_id)
    THEN [pending_credentials |-> pc,
          approval_responses |->
              Put(ar, response.approval_id,
                  [approved |-> response.approved, comments |-> response.comments]),
          res |-> "recorded"]
    ELSE [pending_credentials |-> pc, approval_responses |-> ar, res |-> "not_found"]

\* handle_approval_response: the new value of (pending_credentials, approval_responses)
handle_approval_response(pc, ar, response) ==
    IF Has(pc, response.approval_id)
    THEN [pending_credentials |->
              Put(pc, response.approval_id,
                  [Get(pc, response.approval_id) EXCEPT
                      !.status = IF response.approved THEN "approved" ELSE "rejected"]),
          approval_responses |->
              Put(ar, response.approval_id,
                  [approved |-> response.approved, comments |-> response.comments]),
          res |-> "recorded"]
    ELSE [pending_credentials |-> pc, approval_responses |-> ar, res |-> "not_found"]

\* connection is the payload's connection_id (None: the payload has none); the
\* handler reads it for the log line of a text message only
handle_basicmessages(content, connection) ==
    /\ IsRegistrar /\ Ready
    /\ LET content_json == json_loads(content)
           is_response == /\ content.kind # "empty"
                          /\ content_json.ok
                          /\ content_json.type = "credential_approval_response"
           new == handle_approval_response(pending_credentials, approval_responses,
                                           content_json)
       IN IF is_response
          THEN /\ pending_credentials' = new.pending_credentials
               /\ approval_responses' = new.approval_responses
               /\ last' = Did("handle_approval_response", content_json.approval_id, new.res)
          ELSE /\ UNCHANGED <<pending_credentials, approval_responses>>
               /\ last' = IF content.kind = "text"
                           THEN Logged("handle_basicmessages", None, "not_json", 1)
                           ELSE IF content.kind = "empty"
                           THEN Logged("handle_basicmessages", None, "empty", 0)
                           ELSE Idle
    /\ UNCHANGED <<script, closed_while_awaited, admin_vars, connection_id, holder_connection_id, admin_connection_id,
                   holder_connections, uuids, main_pc, main_local, conn_tasks, offers>>

\* ------------------------------------------------------ operator: option 1
Item(key, value) == [k |-> key, v |-> value]

\* main, option 1: the student_data dict built from the prompts.  The operator
\* answers every prompt with the text of one profile; the two computed fields
\* of uni_reg_a come from the clock.
student_data_of(profile) ==
    IF script = "uni_reg_a"
    THEN << Item("student_name", profile), Item("student_id", profile),
            Item("enrollment_date", profile), Item("program", profile),
            Item("year", profile), Item("gpa", profile),
            Item("birthdate_dateint", "clock"), Item("timestamp", "clock") >>
    ELSE << Item("student_id", profile), Item("student_name", profile),
            Item("university_name", profile), Item("graduation_year", profile),
            Item("cgpa", profile) >>

\* a generator that returns the value of its first call again
uuid4_repeats == IF uuids = 0 THEN uuids + 1 ELSE uuids
\* str(uuid.uuid4()): a value no earlier call returned
uuid4 == uuids + 1

\* option 1 and send_approval_request up to the await of the send-message POST
send_approval_request(profile) ==
    /\ IsRegistrar /\ Ready
    /\ main_pc = "menu"
    /\ IF admin_connection_id = None
       THEN /\ profile = 1
            /\ last' = Did("send_approval_request", None, "no_admin")
            /\ UNCHANGED <<uuids, main_pc, main_local>>
       ELSE /\ uuids < MaxSubmits
            /\ uuids' = uuids + 1
            /\ main_pc' = "send_message_post"
            /\ main_local' = [NoLocal EXCEPT !.approval_id = uuid4,
                                             !.student_data = student_data_of(profile)]
            /\ last' = Did("send_approval_request", uuid4, "sending")
    /\ UNCHANGED <<script, closed_while_awaited, admin_vars, connection_id, holder_connection_id, admin_connection_id,
                   pending_credentials, approval_responses, holder_connections,
                   conn_tasks, offers>>

\* a submit that records the request whether or not the POST succeeded
send_approval_request_resume_always_stores(ok) ==
    /\ main_pc = "send_message_post" /\ Ready
    /\ pending_credentials' =
          Put(pending_credentials, main_local.approval_id,
              [student_data |-> main_local.student_data,
               status |-> "pending_approval"])
    /\ last' = Did("send_approval_request", main_local.approval_id,
                   IF ok THEN "sent" ELSE "error")
    /\ main_pc' = "menu"
    /\ main_local' = NoLocal
    /\ UNCHANGED <<script, closed_while_awaited, admin_vars, connection_id, holder_connection_id, admin_connection_id,
                   approval_responses, holder_connections, uuids, conn_tasks, offers>>

\* send_approval_request resumed: the POST returned (ok) or raised
send_approval_request_resume(ok) ==
    /\ main_pc = "send_message_post" /\ Ready
    /\ pending_credentials' =
          IF ok
          THEN Put(pending_credentials, main_local.approval_id,
                   [student_data |-> main_local.student_data,
                    status |-> "pending_approval"])
          ELSE pending_credentials
    /\ last' = Did("send_approval_request", main_local.approval_id,
                   IF ok THEN "sent" ELSE "error")
    /\ main_pc' = "menu"
    /\ main_local' = NoLocal
    /\ UNCHANGED <<script, closed_while_awaited, admin_vars, connection_id, holder_connection_id, admin_connection_id,
                   approval_responses, holder_connections, uuids, conn_tasks, offers>>

\* ------------------------------------------------------ operator: option 5
\* option 5 up to the await of POST /out-of-band/receive-invitation; an
\* invitation that is not JSON is reported and the command ends
connect_to_admin(valid_json) ==
    /\ IsRegistrar /\ Ready
    /\ main_pc = "menu"
    /\ main_pc' = IF valid_json THEN "receive_invitation_post" ELSE "menu"
    /\ last' = Did("connect_to_admin", None, IF valid_json THEN "sending" ELSE "invalid_json")
    /\ UNCHANGED <<script, closed_while_awaited, admin_vars, connection_id, holder_connection_id, admin_connection_id,
                   pending_credentials, approval_responses, holder_connections,
                   uuids, main_local, conn_tasks, offers>>

\* option 5 that also enters the new connection in the holder registry
connect_to_admin_resume_registers(c) ==
    /\ main_pc = "receive_invitation_post" /\ Ready
    /\ admin_connection_id' = IF c # None THEN c ELSE admin_connection_id
    /\ IF c # None /\ script = "uni_reg_c"
       THEN SetRegistry(add_holder_connection(Registry, c))
       ELSE UNCHANGED <<holder_connections, connection_id, holder_connection_id>>
    /\ main_pc' = "menu"
    /\ last' = Did("connect_to_admin", c, IF c # None THEN "connected" ELSE "error")
    /\ UNCHANGED <<script, closed_while_awaited, admin_vars, pending_credentials, approval_responses,
                   uuids, main_local, conn_tasks, offers>>

\* option 5 resumed: response["connection_id"] becomes the admin connection;
\* c = None stands for a POST that raised
connect_to_admin_resume(c) ==
    /\ main_pc = "receive_invitation_post" /\ Ready
    /\ admin_connection_id' = IF c # None THEN c ELSE admin_connection_id
    /\ main_pc' = "menu"
    /\ last' = Did("connect_to_admin", c, IF c # None THEN "connected" ELSE "error")
    /\ UNCHANGED <<script, closed_while_awaited, admin_vars, connection_id, holder_connection_id,
                   pending_credentials, approval_responses, holder_connections,
                   uuids, main_local, conn_tasks, offers>>

\* ------------------------------------------------------ operator: option 6
\* the attributes used when no student data is passed
default_cred_attrs == << Item("student_name", "John Doe"), Item("student_id", "default") >>

\* generate_credential_offer that always takes the default attributes
generate_credential_offer_defaults(student_data, holder_conn) ==
    [connection_id |-> IF holder_conn # None THEN holder_conn ELSE get_holder_connection_id,
     attributes |-> [i \in DOMAIN default_cred_attrs |->
                        [name |-> default_cred_attrs[i].k,
                         value |-> default_cred_attrs[i].v]]]

\* generate_credential_offer(20, CRED_FORMAT_INDY, ...): the connection the
\* offer names and the attributes of its credential_preview
generate_credential_offer(student_data, holder_conn) ==
    LET cred_attrs == IF student_data # <<>> THEN student_data ELSE default_cred_attrs
        target_connection_id == IF holder_conn # None THEN holder_conn
                                ELSE get_holder_connection_id
    IN [connection_id |-> target_connection_id,
        attributes |-> [i \in DOMAIN cred_attrs |->
                           [name |-> cred_attrs[i].k, value |-> cred_attrs[i].v]]]

\* [approval_id for approval_id, response in approval_responses.items()
\*  if response.get("approved")]
approved_credentials ==
    KeyList(SelectSeq(approval_responses, LAMBDA e : e.v.approved))

\* the checks without the test of response.get("approved")
process_check_any_response(approval_id) ==
    IF ~Has(pending_credentials, approval_id) THEN "no_pending"
    ELSE IF ~Has(approval_responses, approval_id) THEN "no_response"
    ELSE "ok"

\* the checks without the test `approval_id not in self.approval_responses`
process_check_response_optional(approval_id) ==
    IF ~Has(pending_credentials, approval_id) THEN "no_pending"
    ELSE IF Has(approval_responses, approval_id)
            /\ ~Get(approval_responses, approval_id).approved THEN "not_approved"
    ELSE "ok"

\* The checks process_approved_credential makes before it builds the offer:
\* the log line it returns with, or "ok".
process_check(approval_id) ==
    IF ~Has(pending_credentials, approval_id) THEN "no_pending"
    ELSE IF ~Has(approval_responses, approval_id) THEN "no_response"
    ELSE IF ~Get(approval_responses, approval_id).approved THEN "not_approved"
    ELSE "ok"

\* what the operator can type at a numbered prompt: text that int() rejects,
\* or a number
Choices == [numeric : {FALSE}, n : {0}] \cup [numeric : {TRUE}, n : -1..(MaxConnsC + 1)]

\* int(choice) - 1 and the range check against a list of n entries: the
\* 1-based position chosen, or 0 for "invalid"
chosen_index(choice, n) ==
    IF ~choice.numeric THEN 0
    ELSE IF choice.n - 1 < 0 \/ choice.n - 1 >= n THEN 0
    ELSE choice.n

\* option 6 up to its prompts.  Listing the approved ids reads
\* pending_credentials[approval_id]; a missing key raises out of the menu loop.
\* uni_reg_c numbers the approved ids and the active holders as they are now
\* and then reads two numbers: cred_choice and holder_choice are what the
\* operator is going to type, and main_local keeps the entries they designate
\* in the lists of this moment (None: not a number of the list).
process_approved_credentials(cred_choice, holder_choice) ==
    /\ IsRegistrar /\ Ready
    /\ main_pc = "menu"
    /\ IF approved_credentials = <<>>
       THEN /\ last' = Did("option6", None, "none_approved")
            /\ UNCHANGED <<main_pc, main_local>>
       ELSE IF script = "uni_reg_c" /\ get_active_holders = <<>>
       THEN /\ last' = Did("option6", None, "no_active_holders")
            /\ UNCHANGED <<main_pc, main_local>>
       ELSE LET holder_list == KeyList(get_active_holders)
                i == chosen_index(cred_choice, Len(approved_credentials))
                j == chosen_index(holder_choice, Len(holder_list))
            IN /\ main_pc' =
                    IF \E n \in DOMAIN approved_credentials :
                          ~Has(pending_credentials, approved_credentials[n])
                    THEN "exited"
                    ELSE IF script = "uni_reg_c" THEN "option6_prompts"
                    ELSE "approval_id_prompt"
               /\ main_local' =
                    IF script = "uni_reg_c"
                    THEN [NoLocal EXCEPT
                            !.approval_id = IF i = 0 THEN None ELSE approved_credentials[i],
                            !.conn = IF j = 0 THEN None ELSE holder_list[j]]
                    ELSE NoLocal
               /\ last' = Did("option6", None, "listed")
    /\ UNCHANGED <<script, closed_while_awaited, admin_vars, connection_id, holder_connection_id, admin_connection_id,
                   pending_credentials, approval_responses, holder_connections,
                   uuids, conn_tasks, offers>>

\* uni_reg_a: the operator types an approval id; process_approved_credential
\* runs up to the await of the send-offer POST
process_approved_credential(approval_id) ==
    /\ script = "uni_reg_a"
    /\ main_pc = "approval_id_prompt" /\ Ready
    /\ LET check == process_check(approval_id)
           holder_conn_id == get_holder_connection_id
           res == IF check # "ok" THEN check
                  ELSE IF holder_conn_id = None THEN "no_holder" ELSE "sending"
       IN /\ last' = Did("process_approved_credential", approval_id, res)
          /\ IF res = "sending"
             THEN LET offer == generate_credential_offer(
                                  Get(pending_credentials, approval_id).student_data,
                                  holder_conn_id)
                  IN /\ main_pc' = "send_offer_post"
                     /\ main_local' = [NoLocal EXCEPT !.approval_id = approval_id,
                                                      !.conn = offer.connection_id,
                                                      !.attributes = offer.attributes]
             ELSE /\ main_pc' = "menu"
                  /\ main_local' = NoLocal
    /\ UNCHANGED <<script, closed_while_awaited, admin_vars, connection_id, holder_connection_id, admin_connection_id,
                   pending_credentials, approval_responses, holder_connections,
                   uuids, conn_tasks, offers>>

\* uni_reg_c: both numbers are read.  An invalid credential number ends the
\* command at the first prompt, an invalid holder number at the second;
\* otherwise process_approved_credential_for_holder runs up to the await of
\* the send-offer POST.
process_approved_credential_for_holder ==
    /\ script = "uni_reg_c"
    /\ main_pc = "option6_prompts" /\ Ready
    /\ LET approval_id == main_local.approval_id
           target_conn_id == main_local.conn
           check == process_check(approval_id)
           res == IF approval_id = None THEN "invalid_credential_number"
                  ELSE IF target_conn_id = None THEN "invalid_holder_number"
                  ELSE IF check # "ok" THEN check
                  ELSE IF ~Has(get_active_holders, target_conn_id) THEN "not_active"
                  ELSE "sending"
       IN /\ last' = Did(IF approval_id = None \/ target_conn_id = None THEN "option6"
                         ELSE "process_approved_credential_for_holder",
                         approval_id, res)
          /\ IF res = "sending"
             THEN LET offer == generate_credential_offer(
                                  Get(pending_credentials, approval_id).student_data,
                                  target_conn_id)
                  IN /\ main_pc' = "send_offer_post"
                     /\ main_local' = [NoLocal EXCEPT !.approval_id = approval_id,
                                                      !.conn = offer.connection_id,
                                                      !.attributes = offer.attributes]
             ELSE /\ main_pc' = "menu"
                  /\ main_local' = NoLocal
    /\ UNCHANGED <<script, closed_while_awaited, admin_vars, connection_id, holder_connection_id, admin_connection_id,
                   pending_credentials, approval_responses, holder_connections,
                   uuids, conn_tasks, offers>>

\* process_approved_credential(_for_holder) resumed: the send-offer POST
\* returned (ok) or raised
process_approved_credential_resume(ok) ==
    /\ main_pc = "send_offer_post" /\ Ready
    /\ IF ok
       THEN /\ offers' = Append(offers, [approval_id |-> main_local.approval_id,
                                         connection_id |-> main_local.conn,
                                         attributes |-> main_local.attributes])
            /\ pending_credentials' = Del(pending_credentials, main_local.approval_id)
            /\ approval_responses' = Del(approval_responses, main_local.approval_id)
       ELSE UNCHANGED <<offers, pending_credentials, approval_responses>>
    /\ last' = Did(IF script = "uni_reg_a" THEN "process_approved_credential"
                   ELSE "process_approved_credential_for_holder",
                   main_local.approval_id, IF ok THEN "offer_sent" ELSE "error")
    /\ main_pc' = "menu"
    /\ main_local' = NoLocal
    /\ UNCHANGED <<script, closed_while_awaited, admin_vars, connection_id, holder_connection_id, admin_connection_id,
                   holder_connections, uuids, conn_tasks>>

\* ================================================================ uni_admin_a
\* ------------------------------------------------------ webhook: connections
\* uni_admin_a.py handle_connections: the first active connection becomes the
\* registrar connection
admin_handle_connections(c, state) ==
    /\ script = "uni_admin_a" /\ Ready
    /\ IF state = "active" /\ registrar_connection_id = None
       THEN /\ registrar_connection_id' = c
            /\ last' = Did("handle_connections", c, "registrar")
       ELSE /\ UNCHANGED registrar_connection_id
            /\ last' = Idle
    /\ UNCHANGED <<script, closed_while_awaited, registrar_only_vars, connection_id, uuids, main_pc, main_local,
                   pending_approvals, responses, requests>>

\* ------------------------------------------------------ webhook: basicmessages
\* The content of a basic message sent to the admin.  approval_id None: the
\* request has no approval_id; student_data: a mapping, absent, or a JSON
\* value that is not a mapping.
StudentDataForms == {"mapping", "absent", "not_a_mapping"}
AdminContents ==
    [kind : {"empty", "text", "json"}, type : {""}, approval_id : {None},
     student_data : {"absent"}]
        \cup [kind : {"json"}, type : {"credential_approval_request"},
              approval_id : 0..MaxIdsAdmin, student_data : StudentDataForms]

\* ids that uuid4 gives to requests that came without one
generated_id == MaxIdsAdmin + uuids + 1

\* "Determine connection ID" of handle_approval_request: the payload's
\* connection_id, else the registrar connection pointer, else the default
\* connection
origin_connection_id_pointer_first(connection) ==
    IF registrar_connection_id # None THEN registrar_connection_id
    ELSE IF connection # None THEN connection ELSE connection_id

origin_connection_id(connection) ==
    LET from_payload == IF connection # None THEN connection
                        ELSE registrar_connection_id
    IN IF from_payload = None /\ connection_id # None
       THEN connection_id ELSE from_payload

\* handle_basicmessage and handle_approval_request.  connection is the
\* payload's connection_id (None: the payload has none).  The payloads carry
\* no "@id" and the request no connection_id of its own, so a request without
\* approval_id gets a generated one.
handle_basicmessage(content, connection) ==
    /\ script = "uni_admin_a" /\ Ready
    /\ IF content.kind = "json" /\ content.type = "credential_approval_request"
       THEN LET approval_id == IF content.approval_id # None THEN content.approval_id
                               ELSE generated_id
                \* message.get("student_data", {}): the default is a mapping
                student_data == IF content.student_data = "absent" THEN "mapping"
                                ELSE content.student_data
                origin == origin_connection_id(connection)
            IN /\ requests < MaxRequestsAdmin
               /\ requests' = requests + 1
               /\ uuids' = IF content.approval_id = None THEN uuids + 1 ELSE uuids
               /\ pending_approvals' =
                     Put(pending_approvals, approval_id,
                         [student_data |-> student_data,
                          registrar_connection_id |-> origin])
               /\ last' = Did("handle_approval_request", approval_id,
                              IF student_data = "not_a_mapping" THEN "stored_then_raised"
                              ELSE "stored")
       ELSE /\ connection = None
            /\ UNCHANGED <<uuids, pending_approvals, requests>>
            /\ last' = IF content.kind = "text"
                       THEN Logged("handle_basicmessage", None, "not_json", 1)
                       ELSE IF content.kind = "empty"
                       THEN Logged("handle_basicmessage", None, "empty", 0)
                       ELSE Idle
    /\ UNCHANGED <<script, closed_while_awaited, registrar_only_vars, connection_id, main_pc, main_local,
                   registrar_connection_id, responses>>

\* ------------------------------------------------------ operator: options 1, 2
\* options 1 and 2 up to their prompts: the pending requests are listed, which
\* calls student_data.get(...) on every record
approve_or_reject(approved) ==
    /\ script = "uni_admin_a" /\ Ready
    /\ main_pc = "menu"
    /\ IF pending_approvals = <<>>
       THEN /\ approved
            /\ last' = Did("approve_or_reject", None, "none_pending")
            /\ UNCHANGED <<main_pc, main_local>>
       ELSE IF \E i \in DOMAIN pending_approvals :
                  pending_approvals[i].v.student_data = "not_a_mapping"
       THEN /\ approved
            /\ last' = Did("approve_or_reject", None, "raised")
            /\ main_pc' = "exited"
            /\ UNCHANGED main_local
       ELSE /\ last' = Did("approve_or_reject", None, "listed")
            /\ main_pc' = "approval_prompts"
            /\ main_local' = [NoLocal EXCEPT !.approved = approved]
    /\ UNCHANGED <<script, closed_while_awaited, registrar_only_vars, admin_vars, connection_id, uuids>>

\* for _ in range(10)
PollLimit == 10

\* the operator has typed the approval id (and the comments);
\* send_approval_response runs up to the await of its first connection lookup
send_approval_response(approval_id) ==
    /\ script = "uni_admin_a" /\ Ready
    /\ main_pc = "approval_prompts"
    /\ LET found == Has(pending_approvals, approval_id)
           recorded == IF found THEN Get(pending_approvals, approval_id).registrar_connection_id
                       ELSE None
           target == IF recorded # None THEN recorded ELSE connection_id
           res == IF ~found THEN "not_found"
                  ELSE IF target = None THEN "no_connection" ELSE "checking"
       IN /\ last' = Did("send_approval_response", approval_id, res)
          /\ IF res = "checking"
             THEN /\ main_pc' = "connection_get"
                  /\ main_local' = [main_local EXCEPT !.approval_id = approval_id,
                                                      !.conn = target]
             ELSE /\ main_pc' = "menu"
                  /\ main_local' = NoLocal
    /\ UNCHANGED <<script, closed_while_awaited, registrar_only_vars, admin_vars, connection_id, uuids>>

\* the outcomes of one GET /connections/{id} in send_approval_response
CheckOutcomes == {"active", "inactive", "error"}

\* send_approval_response resumed with the result of a connection lookup: the
\* first one (main_pc = "connection_get") or one of the polls.  An exception
\* of a lookup is caught and logged, and the method goes on to send.
send_approval_response_checked(outcome) ==
    /\ main_pc \in {"connection_get", "connection_poll"} /\ Ready
    /\ LET polls == IF main_pc = "connection_poll" THEN main_local.polls + 1 ELSE 0
       IN IF outcome \in {"active", "error"}
          THEN /\ main_pc' = "send_response_post"
               /\ main_local' = [main_local EXCEPT !.polls = 0]
               /\ last' = Did("send_approval_response", main_local.approval_id,
                              IF outcome = "active" THEN "sending" ELSE "sending_unchecked")
          ELSE IF polls < PollLimit
          THEN /\ main_pc' = "connection_poll"
               /\ main_local' = [main_local EXCEPT !.polls = polls]
               /\ last' = Idle
          ELSE /\ main_pc' = "menu"
               /\ main_local' = NoLocal
               /\ last' = Did("send_approval_response", main_local.approval_id, "not_active")
    /\ UNCHANGED <<script, closed_while_awaited, registrar_only_vars, admin_vars, connection_id, uuids>>

\* send_approval_response resumed: the send-message POST returned (ok) or raised
send_approval_response_resume(ok) ==
    /\ main_pc = "send_response_post" /\ Ready
    /\ IF ok
       THEN /\ pending_approvals' = Del(pending_approvals, main_local.approval_id)
            /\ responses' = Append(responses, [approval_id |-> main_local.approval_id,
                                               approved |-> main_local.approved,
                                               connection_id |-> main_local.conn])
       ELSE UNCHANGED <<pending_approvals, responses>>
    /\ last' = Did("send_approval_response", main_local.approval_id,
                   IF ok THEN "sent" ELSE "error")
    /\ main_pc' = "menu"
    /\ main_local' = NoLocal
    /\ UNCHANGED <<script, closed_while_awaited, registrar_only_vars, connection_id, uuids,
                   registrar_connection_id, requests>>


\* --------------------------------------------------------------- company_a
\* CompanyAAgent keeps holder_connections {connection_id: {proofs_requested,
\* proofs_verified}} (alias and connected_at are only displayed).  Entries are
\* never removed.

\* add_holder_connection: the entry is assigned whether or not the id is known
company_add_holder_connection(hc, c) ==
    Put(hc, c, [proofs_requested |-> 0, proofs_verified |-> 0])

\* get_holder_connections: list(self.holder_connections.keys())
get_holder_connections == KeyList(holder_connections)

\* handle_connections up to its await of GET /connections/{conn_id}
company_handle_connections(c, state) ==
    /\ script = "company_a" /\ Ready
    /\ IF state = "active"
       THEN /\ c \notin conn_tasks
            /\ Cardinality(conn_tasks) < MaxInflight
            /\ conn_tasks' = conn_tasks \cup {c}
            /\ last' = Did("handle_connections", c, "lookup")
       ELSE /\ state = "request"
            /\ UNCHANGED conn_tasks
            /\ last' = Idle
    /\ UNCHANGED <<script, closed_while_awaited, admin_vars, connection_id, holder_connection_id,
                   admin_connection_id, pending_credentials, approval_responses,
                   holder_connections, uuids, main_pc, main_local, offers>>

\* handle_connections resumed: the lookup returned (ok) or raised; both
\* branches add the connection
company_handle_connections_resume(c, ok) ==
    /\ script = "company_a" /\ Ready
    /\ c \in conn_tasks
    /\ conn_tasks' = conn_tasks \ {c}
    /\ holder_connections' = company_add_holder_connection(holder_connections, c)
    /\ last' = Did("handle_connections", c, IF ok THEN "holder" ELSE "error")
    /\ UNCHANGED <<script, closed_while_awaited, admin_vars, connection_id, holder_connection_id,
                   admin_connection_id, pending_credentials, approval_responses,
                   uuids, main_pc, main_local, offers>>

\* handle_present_proof: a "verified" exchange counts for its connection if
\* the connection is known; the other states are logged
ProofStates == {"presentation_received", "verified"}

handle_present_proof(c, state) ==
    /\ script = "company_a" /\ Ready
    /\ IF state = "verified" /\ Has(holder_connections, c)
       THEN LET info == Get(holder_connections, c) IN
            /\ info.proofs_verified < MaxVerifiedCompany
            /\ holder_connections' =
                  Put(holder_connections, c, [info EXCEPT !.proofs_verified = @ + 1])
            /\ last' = Did("handle_present_proof", c, "verified")
       ELSE /\ state = "presentation_received"
            /\ UNCHANGED holder_connections
            /\ last' = Idle
    /\ UNCHANGED <<script, closed_while_awaited, admin_vars, connection_id, holder_connection_id,
                   admin_connection_id, pending_credentials, approval_responses,
                   uuids, main_pc, main_local, conn_tasks, offers>>

\* what the operator can type at "Select connection (1-N)"
Selections ==
    [numeric : {FALSE}, n : {0}]
        \cup [numeric : {TRUE}, n : (0 - MaxConnsCompany)..(MaxConnsCompany + 1)]

\* list[i] of Python for a 0-based i: a negative i counts from the end; None
\* stands for the IndexError
list_item(list, i) ==
    IF 0 <= i /\ i < Len(list) THEN list[i + 1]
    ELSE IF 0 - Len(list) <= i /\ i < 0 THEN list[Len(list) + i + 1]
    ELSE None

\* holder_connections[int(selection) - 1]; None stands for the ValueError of
\* int() and the IndexError, which the options catch
selected_conn(list, selection) ==
    IF ~selection.numeric THEN None ELSE list_item(list, selection.n - 1)

\* options 1, 2 and 3 count a request (1, 2) and POST to the selected holder
CompanyOptions == {"1", "2", "3"}

\* options 1, 2, 3 up to the prompt for the connection.  With one holder
\* there is no prompt.  selection is what the operator is going to type;
\* main_local keeps the entry it designates in the list of this moment.
company_option(option, selection) ==
    /\ script = "company_a" /\ Ready
    /\ main_pc = "menu"
    /\ \A c \in Keys(holder_connections) :
          Get(holder_connections, c).proofs_requested < MaxProofsCompany
    /\ LET list == get_holder_connections IN
       IF list = <<>>
       THEN /\ last' = Did("option", None, "no_holders")
            /\ UNCHANGED <<main_pc, main_local>>
       ELSE /\ main_local' =
                  [NoLocal EXCEPT
                     !.option = option,
                     !.conn = IF Len(list) = 1 THEN list[1]
                              ELSE selected_conn(list, selection)]
            /\ main_pc' = IF Len(list) = 1 THEN "selected" ELSE "select_prompt"
            /\ last' = Did("option", None, "listed")
    /\ UNCHANGED <<script, closed_while_awaited, admin_vars, connection_id, holder_connection_id,
                   admin_connection_id, pending_credentials, approval_responses,
                   holder_connections, uuids, conn_tasks, offers>>

\* the selection was read (or there was one holder): an invalid selection
\* ends the command; option 1 counts the request and POSTs it; options 2 and 3
\* prompt for the request's details first
company_selected ==
    /\ script = "company_a" /\ Ready
    /\ main_pc \in {"selected", "select_prompt"}
    /\ IF main_local.conn = None
       THEN /\ main_pc' = "menu"
            /\ main_local' = NoLocal
            /\ last' = Did("option", None, "invalid_selection")
            /\ UNCHANGED holder_connections
       ELSE IF main_local.option = "1"
       THEN /\ main_pc' = "send_post"
            /\ holder_connections' =
                  Put(holder_connections, main_local.conn,
                      [Get(holder_connections, main_local.conn)
                          EXCEPT !.proofs_requested = @ + 1])
            /\ last' = Did("option", main_local.conn, "sending")
            /\ UNCHANGED main_local
       ELSE /\ main_pc' = "details_prompt"
            /\ last' = Idle
            /\ UNCHANGED <<main_local, holder_connections>>
    /\ UNCHANGED <<script, closed_while_awaited, admin_vars, connection_id, holder_connection_id,
                   admin_connection_id, pending_credentials, approval_responses,
                   uuids, conn_tasks, offers>>

\* options 2 and 3 after their prompts for schema, attributes or message
company_details_read ==
    /\ script = "company_a" /\ Ready
    /\ main_pc = "details_prompt"
    /\ main_pc' = "send_post"
    /\ holder_connections' =
          IF main_local.option = "2"
          THEN Put(holder_connections, main_local.conn,
                   [Get(holder_connections, main_local.conn)
                       EXCEPT !.proofs_requested = @ + 1])
          ELSE holder_connections
    /\ last' = Did("option", main_local.conn, "sending")
    /\ UNCHANGED <<script, closed_while_awaited, admin_vars, connection_id, holder_connection_id,
                   admin_connection_id, pending_credentials, approval_responses,
                   uuids, main_local, conn_tasks, offers>>

\* the POST (send-request or send-message) returned (ok) or raised; both are
\* logged and the menu continues
company_send_resume(ok) ==
    /\ script = "company_a" /\ Ready
    /\ main_pc = "send_post"
    /\ main_pc' = "menu"
    /\ main_local' = NoLocal
    /\ last' = Did("option", main_local.conn, IF ok THEN "sent" ELSE "error")
    /\ UNCHANGED <<script, closed_while_awaited, admin_vars, connection_id, holder_connection_id,
                   admin_connection_id, pending_credentials, approval_responses,
                   holder_connections, uuids, conn_tasks, offers>>

\* ------------------------------------------------ operator: other commands
\* The commands whose only effect is an admin-API call: proof request (2),
\* connectionless proof request (2a), message to the holder (3) and new
\* invitation (4) of the registrars, new invitation (5) of uni_admin_a,
\* connectionless proof request (2a) and new invitation (4) of company_a.
MenuOptions ==
    IF IsRegistrar THEN {"2", "2a", "3", "4"}
    ELSE IF script = "uni_admin_a" THEN {"5"}
    ELSE {"2a", "4"}

\* the call is made inside a try whose except logs the error: only option 2a
\* of company_a
in_try(option) == script = "company_a" /\ option = "2a"
\* where the menu loop is suspended while the call is awaited
api_call_pc(option) == IF in_try(option) THEN "admin_api_call_in_try" ELSE "admin_api_call"

\* the command up to the await of its admin-API call.  Option 3 of the
\* registrars makes no call without a holder connection.
menu_option(option) ==
    /\ Ready
    /\ main_pc = "menu"
    /\ IF IsRegistrar /\ option = "3" /\ get_holder_connection_id = None
       THEN /\ last' = Did("menu_option", None, "no_holder")
            /\ UNCHANGED <<main_pc, main_local>>
       ELSE /\ main_pc' = api_call_pc(option)
            /\ last' = Did("menu_option", None, "calling")
            /\ UNCHANGED main_local
    /\ UNCHANGED <<script, closed_while_awaited, admin_vars, connection_id, holder_connection_id,
                   admin_connection_id, pending_credentials, approval_responses,
                   holder_connections, uuids, conn_tasks, offers>>

\* the call returned (ok) or raised.  Inside a try the error is logged and
\* the menu goes on; elsewhere the exception leaves the menu loop.
menu_option_resume(ok) ==
    /\ Ready
    /\ main_pc \in {"admin_api_call", "admin_api_call_in_try"}
    /\ main_pc' = IF ok \/ main_pc = "admin_api_call_in_try" THEN "menu" ELSE "exited"
    /\ last' = Did("menu_option", None,
                   IF ok THEN "returned"
                   ELSE IF main_pc = "admin_api_call_in_try" THEN "error" ELSE "raised")
    /\ UNCHANGED <<script, closed_while_awaited, admin_vars, connection_id, holder_connection_id,
                   admin_connection_id, pending_credentials, approval_responses,
                   holder_connections, uuids, main_local, conn_tasks, offers>>

\* ------------------------------------------------------------ operator: exit
\* option X, an empty line or the end of input breaks the loop; main's finally
\* clause awaits the container's terminate()
menu_exit ==
    /\ Ready
    /\ main_pc = "menu"
    /\ main_pc' = "terminate"
    /\ last' = Did("exit", None, "terminating")
    /\ UNCHANGED <<script, closed_while_awaited, admin_vars, connection_id, holder_connection_id,
                   admin_connection_id, pending_credentials, approval_responses,
                   holder_connections, uuids, main_local, conn_tasks, offers>>

\* main after terminate() returned: os._exit(1) if it reported a failure,
\* else main returns and the process exits with 0
main_terminated_exits_zero(terminated) ==
    /\ last = Idle /\ main_pc = "terminate"
    /\ main_pc' = "exited"
    /\ last' = Did("exit", 0, IF terminated THEN "clean" ELSE "failed")
    /\ UNCHANGED <<script, closed_while_awaited, admin_vars, connection_id, holder_connection_id,
                   admin_connection_id, pending_credentials, approval_responses,
                   holder_connections, uuids, main_local, conn_tasks, offers>>

main_terminated(terminated) ==
    /\ last = Idle /\ main_pc = "terminate"
    /\ main_pc' = "exited"
    /\ last' = Did("exit", IF terminated THEN 0 ELSE 1,
                   IF terminated THEN "clean" ELSE "failed")
    /\ UNCHANGED <<script, closed_while_awaited, admin_vars, connection_id, holder_connection_id,
                   admin_connection_id, pending_credentials, approval_responses,
                   holder_connections, uuids, main_local, conn_tasks, offers>>

\* ------------------------------------------------------------ specification
\* the step that ran has returned to the event loop
event_loop ==
    /\ last # Idle
    /\ last' = Idle
    /\ UNCHANGED <<script, closed_while_awaited, admin_vars, connection_id, holder_connection_id, admin_connection_id,
                   pending_credentials, approval_responses, holder_connections,
                   uuids, main_pc, main_local, conn_tasks, offers>>

Next ==
    \/ event_loop
    \/ \E c \in Conns, state \in ConnStates : handle_connections(c, state)
    \/ \E c \in Conns, r \in LookupResults : handle_connections_resume(c, r)
    \/ \E c \in Conns \cup {None}, state \in CredExStates, delete_ok \in BOOLEAN :
          handle_issue_credential_v2_0(c, state, delete_ok)
    \/ \E content \in Contents, connection \in Conns \cup {None} :
          handle_basicmessages(content, connection)
    \/ \E profile \in Profiles : send_approval_request(profile)
    \/ \E ok \in BOOLEAN : send_approval_request_resume(ok)
    \/ \E valid_json \in BOOLEAN : connect_to_admin(valid_json)
    \/ \E c \in Conns \cup {None} : connect_to_admin_resume(c)
    \/ \E cred_choice \in Choices, holder_choice \in Choices :
          process_approved_credentials(cred_choice, holder_choice)
    \/ \E approval_id \in ApprovalIds : process_approved_credential(approval_id)
    \/ process_approved_credential_for_holder
    \/ \E ok \in BOOLEAN : process_approved_credential_resume(ok)
    \/ \E c \in Conns, state \in ConnStates : admin_handle_connections(c, state)
    \/ \E content \in AdminContents, connection \in Conns \cup {None} :
          handle_basicmessage(content, connection)
    \/ \E approved \in BOOLEAN : approve_or_reject(approved)
    \/ \E approval_id \in 0..(MaxIdsAdmin + MaxRequestsAdmin) :
          send_approval_response(approval_id)
    \/ \E outcome \in CheckOutcomes : send_approval_response_checked(outcome)
    \/ \E ok \in BOOLEAN : send_approval_response_resume(ok)
    \/ \E c \in Conns, state \in ConnStates : company_handle_connections(c, state)
    \/ \E c \in Conns, ok \in BOOLEAN : company_handle_connections_resume(c, ok)
    \/ \E c \in Conns, state \in ProofStates : handle_present_proof(c, state)
    \/ \E option \in CompanyOptions, selection \in Selections :
          company_option(option, selection)
    \/ company_selected
    \/ company_details_read
    \/ \E ok \in BOOLEAN : company_send_resume(ok)
    \/ \E option \in MenuOptions : menu_option(option)
    \/ \E ok \in BOOLEAN : menu_option_resume(ok)
    \/ menu_exit
    \/ \E terminated \in BOOLEAN : main_terminated(terminated)

Spec == Init /\ [][Next]_vars

\* ------------------------------------------------- the holder registry alone
\* The registry methods of UniRegCAgent called in any order on connection ids
\* 1..MaxHolders: every state of the registry that webhook deliveries can
\* produce is among the states of this specification.
MaxHolders == 3

registry_add(c) ==
    /\ SetRegistry(add_holder_connection(Registry, c))
    /\ last' = Did("add_holder_connection", c, "added")
    /\ UNCHANGED <<script, closed_while_awaited, admin_vars, admin_connection_id, pending_credentials,
                   approval_responses, uuids, main_pc, main_local, conn_tasks, offers>>

registry_remove(c) ==
    /\ SetRegistry(remove_holder_connection(Registry, c))
    /\ last' = Did("remove_holder_connection", c,
                   IF Has(holder_connections, c) THEN "removed" ELSE "unknown")
    /\ UNCHANGED <<script, closed_while_awaited, admin_vars, admin_connection_id, pending_credentials,
                   approval_responses, uuids, main_pc, main_local, conn_tasks, offers>>

InitRegistry == Init /\ script = "uni_reg_c"

NextRegistry ==
    \/ \E c \in 1..MaxHolders : registry_add(c)
    \/ \E c \in 1..MaxHolders : registry_remove(c)

SpecRegistry == InitRegistry /\ [][NextRegistry]_vars

\* ================================================================ properties
\* the step issues POST /issue-credential-2.0/send-offer
SendsOffer == main_pc # "send_offer_post" /\ main_pc' = "send_offer_post"
\* the approval ids of the offers the agent accepted
OfferIds == {offers[i].approval_id : i \in DOMAIN offers}
\* the step is a run of process_approved_credential(_for_holder) from its
\* call to its first await or return
ProcessStep ==
    /\ main_pc \in {"approval_id_prompt", "option6_prompts"}
    /\ main_pc' # main_pc
    /\ last'.op \in {"process_approved_credential", "process_approved_credential_for_holder"}

\* C1: a credential offer is sent for an approval id only if a response with
\* approved = true for that id is recorded at the moment the send-offer POST is
\* issued, and an offer the agent accepted is the one of the POST in flight;
\* for an id with no response or with a rejection no POST is issued.
C1_OfferOnlyIfApproved ==
    [][ /\ SendsOffer =>
              /\ Has(approval_responses, main_local'.approval_id)
              /\ Get(approval_responses, main_local'.approval_id).approved
        /\ offers' # offers =>
              /\ main_pc = "send_offer_post"
              /\ Len(offers') = Len(offers) + 1
              /\ offers'[Len(offers')].approval_id = main_local.approval_id
        /\ (ProcessStep /\ last'.res \in {"no_response", "not_approved"}) =>
              ~SendsOffer /\ offers' = offers
      ]_vars

\* an offer was sent for an approved id, and before that a rejected id was
\* processed without an offer
C1_Witness_OfferSent ==
    /\ last.res = "offer_sent"
    /\ offers # <<>>
    /\ \E id \in Keys(approval_responses) : ~Get(approval_responses, id).approved

\* C2: once a record's status is approved or rejected, no later step changes
\* the status or the stored response of that record.
C2_ResolvedStatusIsTerminal ==
    [][ \A id \in Keys(pending_credentials) :
           (Get(pending_credentials, id).status # "pending_approval"
            /\ Has(pending_credentials', id)) =>
              /\ Get(pending_credentials', id).status = Get(pending_credentials, id).status
              /\ Has(approval_responses', id)
              /\ Get(approval_responses', id) = Get(approval_responses, id)
      ]_vars

\* a record whose status is rejected while an offer for it is in flight: an
\* approval was recorded, the offer was sent, and a later rejection replaced it
C2_Witness_RevertedAfterApproval ==
    /\ main_pc = "send_offer_post"
    /\ Has(pending_credentials, main_local.approval_id)
    /\ Get(pending_credentials, main_local.approval_id).status = "rejected"

\* C3: for every approval id at most one offer is accepted; when the offer of
\* an id is accepted the id leaves pending_credentials and approval_responses,
\* and from then on it stays out of both, a process attempt on it reports
\* that there is no pending credential, and no send-offer POST is issued for it.
C3_ConsumedAtMostOnce ==
    /\ [](\A i, j \in DOMAIN offers : offers[i].approval_id = offers[j].approval_id => i = j)
    /\ [][ /\ last'.res = "offer_sent" =>
                 /\ last'.key \in {offers'[i].approval_id : i \in DOMAIN offers'}
                 /\ ~Has(pending_credentials', last'.key)
                 /\ ~Has(approval_responses', last'.key)
           /\ \A id \in OfferIds :
                 /\ ~Has(pending_credentials', id)
                 /\ ~Has(approval_responses', id)
                 /\ SendsOffer => main_local'.approval_id # id
                 /\ (ProcessStep /\ last'.key = id) => last'.res = "no_pending"
         ]_vars

\* the operator processed an id whose offer had been sent before
C3_Witness_SecondAttempt ==
    /\ last.op = "process_approved_credential"
    /\ last.res = "no_pending"
    /\ last.key \in OfferIds

\* C4: a run of process_approved_credential(_for_holder) on an id that is not
\* in pending_credentials, or whose status is still pending_approval, returns
\* without a send-offer POST and leaves pending_credentials, approval_responses
\* and the offers as they were.
C4_UnknownOrPendingNotConsumed ==
    [][ \A id \in ApprovalIds :
           (/\ ProcessStep
            /\ last'.key = id
            /\ \/ ~Has(pending_credentials, id)
               \/ Get(pending_credentials, id).status = "pending_approval") =>
              /\ last'.res \in {"no_pending", "no_response"}
              /\ ~SendsOffer
              /\ main_pc' = "menu"
              /\ UNCHANGED <<pending_credentials, approval_responses, offers>>
      ]_vars

\* the operator processed an id whose request is still pending
C4_Witness_PendingRefused ==
    /\ last.op = "process_approved_credential"
    /\ last.res = "no_response"
    /\ Has(pending_credentials, last.key)
    /\ Get(pending_credentials, last.key).status = "pending_approval"

\* C5: a response for an approval id that is not in pending_credentials leaves
\* pending_credentials and approval_responses as they were (a response is
\* recorded only under an id of pending_credentials); in the admin,
\* send_approval_response for an id that is not in pending_approvals returns
\* to the menu without a lookup or a send and leaves pending_approvals and the
\* responses as they were.
C5_UnknownIdChangesNothing ==
    [][ /\ (last'.op = "handle_approval_response" /\ last'.res = "not_found") =>
              UNCHANGED <<pending_credentials, approval_responses>>
        /\ (last'.op = "handle_approval_response" /\ last'.res = "recorded") =>
              Has(pending_credentials, last'.key)
        /\ Keys(approval_responses') \subseteq Keys(approval_responses) \cup Keys(pending_credentials)
        /\ (/\ main_pc = "approval_prompts"
            /\ last'.op = "send_approval_response"
            /\ ~Has(pending_approvals, last'.key)) =>
              /\ last'.res = "not_found"
              /\ main_pc' = "menu"
              /\ UNCHANGED <<pending_approvals, responses>>
      ]_vars

\* the admin's operator answered an id that is not pending while another
\* request is
C5_Witness_AdminUnknownId ==
    /\ last.op = "send_approval_response"
    /\ last.res = "not_found"
    /\ pending_approvals # <<>>
    /\ ~Has(pending_approvals, last.key)
\* the approval ids the agent holds: in its maps, in the command in flight, in
\* the offers it sent
IdsInUse ==
    Keys(pending_credentials) \cup Keys(approval_responses) \cup OfferIds
        \cup (IF main_pc \in {"send_message_post", "send_offer_post"}
              THEN {main_local.approval_id} ELSE {})

\* C6: the approval ids send_approval_request generates are pairwise distinct
\* (each is larger than every id generated before, and every id in the maps,
\* in flight or in an offer was generated), and a submit whose POST succeeded
\* appends exactly one record, with status pending_approval and the submitted
\* data, under its id, and changes no other record and no response.
C6_FreshIdOnePendingRecord ==
    /\ [](IsRegistrar => \A id \in IdsInUse : 1 <= id /\ id <= uuids)
    /\ [][ /\ (last'.op = "send_approval_request" /\ last'.res = "sending") =>
                 /\ last'.key > uuids
                 /\ last'.key <= uuids'
                 /\ UNCHANGED <<pending_credentials, approval_responses>>
           /\ (last'.op = "send_approval_request" /\ last'.res = "sent") =>
                 /\ ~Has(pending_credentials, last'.key)
                 /\ pending_credentials' =
                       Append(pending_credentials,
                              [k |-> last'.key,
                               v |-> [student_data |-> main_local.student_data,
                                      status |-> "pending_approval"]])
                 /\ UNCHANGED approval_responses
         ]_vars

\* the second request was stored next to the first
C6_Witness_TwoSubmits ==
    /\ last.op = "send_approval_request"
    /\ last.res = "sent"
    /\ Len(pending_credentials) = 2

\* C7: when the operator processes an id whose recorded response is a
\* rejection, the id is removed from pending_credentials and
\* approval_responses.
C7_RejectedRemovedWhenProcessed ==
    [][ \A id \in ApprovalIds :
           (/\ ProcessStep
            /\ last'.key = id
            /\ Has(pending_credentials, id)
            /\ Has(approval_responses, id)
            /\ ~Get(approval_responses, id).approved) =>
              /\ ~Has(pending_credentials', id)
              /\ ~Has(approval_responses', id)
      ]_vars

\* the operator processed a rejected id and its record and response are
\* still stored
C7_Witness_RejectedStays ==
    /\ last.op = "process_approved_credential"
    /\ last.res = "not_approved"
    /\ Has(pending_credentials, last.key)
    /\ Get(pending_credentials, last.key).status = "rejected"
    /\ Has(approval_responses, last.key)

\* the credential_preview attributes of a student_data dict, and: the step
\* changes no record and no response of an id other than id, and adds none
attributes_of(student_data) ==
    [i \in DOMAIN student_data |->
        [name |-> student_data[i].k, value |-> student_data[i].v]]
OthersKept(id) ==
    /\ \A id2 \in Keys(pending_credentials) \ {id} :
          /\ Has(pending_credentials', id2)
          /\ Get(pending_credentials', id2) = Get(pending_credentials, id2)
    /\ \A id2 \in Keys(approval_responses) \ {id} :
          /\ Has(approval_responses', id2)
          /\ Get(approval_responses', id2) = Get(approval_responses, id2)
    /\ Keys(pending_credentials') \subseteq Keys(pending_credentials)
    /\ Keys(approval_responses') \subseteq Keys(approval_responses) \cup {id}

\* C8: recording a response for an id and consuming an id change the record
\* and the response of no other id; the offer accepted for an id has exactly
\* the attributes (names and values, in order) of the student data stored
\* under that id; and no send-offer POST is issued for an id whose status is
\* pending_approval.
C8_RecordsIndependent ==
    [][ /\ (last'.op = "handle_approval_response" /\ last'.res = "recorded") =>
              /\ OthersKept(last'.key)
              /\ Get(pending_credentials', last'.key).student_data
                    = Get(pending_credentials, last'.key).student_data
        /\ last'.res = "offer_sent" =>
              /\ OthersKept(last'.key)
              /\ offers'[Len(offers')].approval_id = last'.key
              /\ offers'[Len(offers')].attributes
                    = attributes_of(Get(pending_credentials, last'.key).student_data)
        /\ SendsOffer =>
              Get(pending_credentials, main_local'.approval_id).status # "pending_approval"
      ]_vars

\* uni_reg_a: the offer of one id was sent with the data of that id while the
\* other id, which holds other data, is still pending
C8_Witness_OtherStillPending ==
    /\ script = "uni_reg_a"
    /\ last.op = "process_approved_credential"
    /\ last.res = "offer_sent"
    /\ Len(offers) = 1
    /\ offers[1].approval_id = last.key
    /\ \E id2 \in Keys(pending_credentials) :
          /\ id2 # last.key
          /\ Get(pending_credentials, id2).status = "pending_approval"
          /\ offers[1].attributes
                # attributes_of(Get(pending_credentials, id2).student_data)

\* C9: in uni_reg_c connection_id and holder_connection_id are each None or
\* the key of an entry of holder_connections whose status is active.
C9_PrimaryIsActiveOrNone ==
    script = "uni_reg_c" =>
        \A p \in {connection_id, holder_connection_id} :
            \/ p = None
            \/ /\ Has(holder_connections, p)
               /\ Get(holder_connections, p).status = "active"

\* the primary was terminated and the pointer moved to the other holder
C9_Witness_PrimaryMoved ==
    /\ script = "uni_reg_c"
    /\ last.res = "terminated"
    /\ connection_id # None
    /\ connection_id # last.key
    /\ Get(holder_connections, last.key).status = "terminated"

\* C10: remove_holder_connection of the primary holder sets connection_id and
\* holder_connection_id to the first active entry of holder_connections, in
\* insertion order, or to None when no entry is active; of any other
\* connection it leaves both as they were.
C10_PrimaryReassigned ==
    [][ \A c \in 1..MaxHolders :
           (last'.op = "remove_holder_connection" /\ last'.key = c) =>
              IF Has(holder_connections, c) /\ connection_id = c
              THEN /\ holder_connection_id' = connection_id'
                   /\ IF active_holder_ids(holder_connections') = <<>>
                      THEN connection_id' = None
                      ELSE \E i \in DOMAIN holder_connections' :
                              /\ holder_connections'[i].k = connection_id'
                              /\ holder_connections'[i].v.status = "active"
                              /\ \A j \in 1..(i - 1) :
                                    holder_connections'[j].v.status # "active"
              ELSE UNCHANGED <<connection_id, holder_connection_id>>
      ]_vars

\* conn 1 registered first, then 2 and 3; 1 was terminated and 2, the first
\* of the two that are left, is the primary
C10_Witness_SecondBecomesPrimary ==
    /\ last = Did("remove_holder_connection", 1, "removed")
    /\ KeyList(holder_connections) = <<1, 2, 3>>
    /\ Get(holder_connections, 1).status = "terminated"
    /\ Get(holder_connections, 2).status = "active"
    /\ Get(holder_connections, 3).status = "active"
    /\ connection_id = 2
    /\ holder_connection_id = 2

\* C11: in uni_reg_c a holder entry whose status is "terminated" stays in the
\* registry with that status in every later step: no event makes it active
\* again.
C11_TerminatedNeverReactivated ==
    [][script = "uni_reg_c" =>
       \A c \in Keys(holder_connections) :
          Get(holder_connections, c).status = "terminated"
          => /\ Has(holder_connections', c)
             /\ Get(holder_connections', c).status = "terminated"]_vars

\* an 'active' event for a terminated holder is being handled: its lookup is
\* in flight
C11_Witness_ActiveEventForTerminated ==
    /\ script = "uni_reg_c"
    /\ \E c \in conn_tasks :
          /\ Has(holder_connections, c)
          /\ Get(holder_connections, c).status = "terminated"

\* the field holds a string that contains "admin" in any letter case
names_admin(label) == label # NullLabel /\ Contains(lower(label), admin)

\* the step registered c as a holder: an active entry of the registry in
\* uni_reg_c, the holder pointer set in uni_reg_a
registered_as_holder(c) ==
    IF script = "uni_reg_c"
    THEN /\ Has(holder_connections', c)
         /\ Get(holder_connections', c).status = "active"
    ELSE /\ holder_connection_id' # None
         /\ (holder_connection_id = None => holder_connection_id' = c)

C13_IssuedCountNeverDecreases ==
    [][script = "uni_reg_c" =>
       \A c \in Keys(holder_connections) :
          /\ Has(holder_connections', c)
          /\ Get(holder_connections', c).credentials_issued
                >= Get(holder_connections, c).credentials_issued]_vars

\* an 'active' event is being handled for a holder that was issued a
\* credential: its lookup is in flight
C13_Witness_ActiveEventAfterIssue ==
    /\ script = "uni_reg_c"
    /\ \E c \in conn_tasks :
          /\ Has(holder_connections, c)
          /\ Get(holder_connections, c).credentials_issued > 0

\* the steps that handle an inbound webhook or message
HandlerOps == {"handle_connections", "handle_issue_credential_v2_0",
               "handle_basicmessages", "handle_approval_response",
               "handle_approval_request", "handle_present_proof"}

\* the keys a step adds to a map
Created(before, after) == Keys(after) \ Keys(before)

\* C14 as stated: entries of pending_credentials, pending_approvals and
\* holder_connections are created only by steps that handle an inbound event,
\* never by an operator command.
C14_CreatedOnlyByHandlers ==
    [][(\/ Created(pending_credentials, pending_credentials') # {}
        \/ Created(pending_approvals, pending_approvals') # {}
        \/ Created(holder_connections, holder_connections') # {})
       => last'.op \in HandlerOps]_vars

\* C14: entries of pending_approvals (admin) and of holder_connections
\* (uni_reg_c, company_a) are created only by steps that handle an inbound
\* event; an entry of pending_credentials (registrar) is created only by the
\* operator's option 1, when the approval request was sent, under the id of
\* that request.
C14_CreatedByHandlersOrSubmit ==
    [][/\ (\/ Created(pending_approvals, pending_approvals') # {}
           \/ Created(holder_connections, holder_connections') # {})
          => last'.op \in HandlerOps
       /\ Created(pending_credentials, pending_credentials') # {}
          => /\ last'.op = "send_approval_request" /\ last'.res = "sent"
             /\ Created(pending_credentials, pending_credentials') = {last'.key}]_vars

\* option 1 of the registrar has just entered a pending record, with a holder
\* registered by an earlier connection event
C14_Witness_SubmitCreatedRecord ==
    /\ last.op = "send_approval_request" /\ last.res = "sent"
    /\ Has(pending_credentials, last.key)
    /\ holder_connection_id # None

\* the tracker maps and connection pointers, and the position of the menu
trackers == <<pending_credentials, approval_responses, holder_connections,
              pending_approvals, responses, connection_id, holder_connection_id,
              admin_connection_id, registrar_connection_id, main_pc, main_local>>

\* the registrar's or the admin's handler took a basic message whose content
\* is not JSON: empty, or text
NonJsonDelivered(kind) ==
    \/ \E content \in Contents, connection \in Conns \cup {None} :
          content.kind = kind /\ handle_basicmessages(content, connection)
    \/ \E content \in AdminContents, connection \in Conns \cup {None} :
          content.kind = kind /\ handle_basicmessage(content, connection)

LacksFields(content) ==
    /\ content.type = "credential_approval_request"
    /\ \/ content.approval_id = None
       \/ content.student_data \in {"absent", "not_a_mapping"}

\* C16: an approval request that parses as JSON but has no approval_id, no
\* student_data, or a student_data that is not a mapping is dropped by the
\* admin: the step that handles it leaves pending_approvals unchanged.
C16_MalformedRequestDropped ==
    [][\A content \in AdminContents, connection \in Conns \cup {None} :
          (LacksFields(content) /\ handle_basicmessage(content, connection))
          => pending_approvals' = pending_approvals]_vars

\* option 1 or 2 of the admin raised out of the menu loop while listing a
\* stored request whose student_data is not a mapping
C16_Witness_ListingRaised ==
    /\ main_pc = "exited"
    /\ last = Did("approve_or_reject", None, "raised")
    /\ \E i \in DOMAIN pending_approvals :
          pending_approvals[i].v.student_data = "not_a_mapping"

\* the menu loop is suspended at an admin-API call of a menu command
CallPcs == {"send_message_post", "receive_invitation_post", "send_offer_post",
            "send_response_post", "send_post", "admin_api_call",
            "admin_api_call_in_try"}

\* C17: when the admin-API call a menu command awaits fails, the menu loop
\* goes on: the step of the command that takes the failure returns to the
\* menu.
C17_FailedCallKeepsMenu ==
    [][(/\ main_pc \in CallPcs
        /\ last'.op \notin HandlerOps
        /\ last'.res \in {"error", "raised"})
       => main_pc' = "menu"]_vars

\* the failed call of a menu command has ended the menu loop
C17_Witness_FailedCallLeftLoop ==
    /\ main_pc = "exited"
    /\ last = Did("menu_option", None, "raised")

\* the operator typed a number of a list of n entries
InRange(choice, n) == choice.numeric /\ 1 <= choice.n /\ choice.n <= n

\* C18: a selection that is not one of 1..N designates no entry (company_a
\* options 1, 2, 3; uni_reg_c option 6), and a command whose selection
\* designates no entry returns to the menu without a call and without a change
\* of the holder registry.
C18_OutOfRangeSelectsNothing ==
    [][/\ \A option \in CompanyOptions, selection \in Selections :
             (/\ company_option(option, selection)
              /\ Len(get_holder_connections) > 1
              /\ ~InRange(selection, Len(get_holder_connections)))
             => main_local'.conn = None
       /\ \A cred_choice \in Choices, holder_choice \in Choices :
             (/\ script = "uni_reg_c"
              /\ process_approved_credentials(cred_choice, holder_choice)
              /\ main_pc' = "option6_prompts")
             => /\ ~InRange(cred_choice, Len(approved_credentials))
                   => main_local'.approval_id = None
                /\ ~InRange(holder_choice, Len(KeyList(get_active_holders)))
                   => main_local'.conn = None
       /\ (/\ main_pc \in {"select_prompt", "option6_prompts"}
           /\ main_pc' # main_pc
           /\ \/ main_local.conn = None
              \/ script = "uni_reg_c" /\ main_local.approval_id = None)
          => /\ main_pc' = "menu"
             /\ UNCHANGED <<holder_connections, pending_credentials,
                            approval_responses, offers>>]_vars

\* company_a, two holders: the request goes to a holder although the menu is
\* about to ask for a number, whatever number is typed next
C18_Witness_RequestAfterPrompt ==
    /\ script = "company_a"
    /\ Len(get_holder_connections) = 2
    /\ last = Did("option", get_holder_connections[2], "sending")

\* C19: when the operator leaves the menu (option X or end of input) the
\* script awaits the container's terminate() before the process exits, and
\* the exit code is not 0 whenever terminate() reported a failure.  The exit
\* code is the key of the step's record.
C19_TerminateThenExitCode ==
    [][/\ (main_pc = "menu" /\ last'.op = "exit")
          => main_pc' = "terminate"
       /\ (last'.op = "exit" /\ main_pc' = "exited")
          => main_pc = "terminate"
       /\ \A terminated \in BOOLEAN :
             (main_terminated(terminated) /\ ~terminated) => last'.key # 0]_vars

\* the process has exited with code 1 after terminate() reported a failure
C19_Witness_ExitedNonZero ==
    /\ main_pc = "exited"
    /\ last = Did("exit", 1, "failed")

\* c is an active entry of the holder registry hc
ActiveIn(hc, c) == Has(hc, c) /\ Get(hc, c).status = "active"

\* the step handled an 'active' connection event for c and took c for a holder
ActiveEventHandled(c) ==
    /\ last'.op = "handle_connections" /\ last'.key = c
    /\ last'.res \in {"holder", "error"}

\* C20: the step that starts an offer names a connection: in uni_reg_c one
\* that is an active holder in the registry at that moment, in uni_reg_a the
\* one the holder pointers name.  A connection becomes an active holder, and
\* in uni_reg_a a holder pointer comes to name a connection, only in the step
\* that handles an 'active' connection event for that connection, so the
\* connection of every offer had its 'active' event handled before.
C20_OfferToActivatedConnection ==
    [][IsRegistrar =>
       /\ SendsOffer
          => /\ main_local'.conn # None
             /\ IF script = "uni_reg_c"
                THEN ActiveIn(holder_connections, main_local'.conn)
                ELSE main_local'.conn \in {holder_connection_id, connection_id}
       /\ \A c \in Conns :
             /\ (ActiveIn(holder_connections', c) /\ ~ActiveIn(holder_connections, c))
                => ActiveEventHandled(c)
             /\ (/\ script = "uni_reg_a"
                 /\ c \in {holder_connection_id', connection_id'}
                 /\ c \notin {holder_connection_id, connection_id})
                => ActiveEventHandled(c)]_vars

\* uni_reg_c starts an offer to an active holder that is not the primary one,
\* while another holder is terminated
C20_Witness_OfferToSecondHolder ==
    /\ script = "uni_reg_c"
    /\ main_pc = "send_offer_post"
    /\ last.op = "process_approved_credential_for_holder" /\ last.res = "sending"
    /\ ActiveIn(holder_connections, main_local.conn)
    /\ \E c \in Keys(holder_connections) :
          Get(holder_connections, c).status = "terminated"

\* ---------------------------------------------------------------- C21
\* the connection a stored request names, None when the id has no record
recorded_origin(approval_id) ==
    IF Has(pending_approvals, approval_id)
    THEN Get(pending_approvals, approval_id).registrar_connection_id ELSE None

AwaitingSend == main_pc \in {"connection_get", "connection_poll", "send_response_post"}

FailedSubmit == last'.op = "send_approval_request" /\ last'.res \in {"no_admin", "error"}

\* C22: a submit that finds no admin connection, or whose send-message call
\* raises, changes neither pending_credentials nor approval_responses and
\* returns to the menu without sending again; a record enters
\* pending_credentials only in the step of a submit whose send succeeded, with
\* status pending_approval.
C22_FailedSubmitLeavesNoRecord ==
    [][IsRegistrar =>
         /\ FailedSubmit
              => /\ pending_credentials' = pending_credentials
                 /\ approval_responses' = approval_responses
                 /\ main_pc' = "menu" /\ main_local' = NoLocal
         /\ \A id \in Created(pending_credentials, pending_credentials') :
              /\ main_pc = "send_message_post"
              /\ last' = Did("send_approval_request", id, "sent")
              /\ Get(pending_credentials', id).status = "pending_approval"
      ]_vars

\* the send of a second submit failed while the first request is on record
C22_Witness_SecondSubmitFailed ==
    /\ IsRegistrar
    /\ last.op = "send_approval_request" /\ last.res = "error"
    /\ pending_credentials # <<>>
    /\ ~Has(pending_credentials, last.key)
    /\ main_pc = "menu"

\* ---------------------------------------------------------------- C23
\* C23: in uni_reg_c a credential exchange that reaches "done" for a registered
\* holder leaves the holder terminated and out of the active holders, with the
\* primary pointer moved to the first holder still active (unset when there is
\* none), whether the DELETE of the connection succeeds or raises; the handler
\* completes in both cases and the menu coroutine is not disturbed.
C23_TerminatedWhateverDeleteDoes ==
    [][script = "uni_reg_c" =>
         \A c \in Conns, delete_ok \in BOOLEAN :
            (handle_issue_credential_v2_0(c, "done", delete_ok)
               /\ Has(holder_connections, c))
            => /\ Get(holder_connections', c).status = "terminated"
               /\ Get(holder_connections', c).credentials_issued
                    = Get(holder_connections, c).credentials_issued + 1
               /\ ~ActiveIn(holder_connections', c)
               /\ connection_id' # c
               /\ connection_id = c
                    => LET active_holders == active_holder_ids(holder_connections')
                       IN /\ connection_id' = IF active_holders # <<>>
                                              THEN active_holders[1] ELSE None
                          /\ holder_connection_id' = connection_id'
               /\ last' = Did("handle_issue_credential_v2_0", c,
                              IF delete_ok THEN "terminated" ELSE "delete_failed")
               /\ main_pc' = main_pc
      ]_vars

\* the DELETE failed for the primary holder while another holder is active:
\* the holder is terminated and the pointer names the other one
C23_Witness_DeleteFailedPrimaryMoved ==
    /\ script = "uni_reg_c"
    /\ last.op = "handle_issue_credential_v2_0" /\ last.res = "delete_failed"
    /\ Has(holder_connections, last.key)
    /\ Get(holder_connections, last.key).status = "terminated"
    /\ connection_id # None /\ connection_id # last.key

\* ---------------------------------------------------------------- C24
\* C24: a basic message that reaches the registrar over a connection other
\* than the admin connection leaves pending_credentials and approval_responses
\* unchanged, whatever its content.
C24_ResponseOnlyOverAdminConnection ==
    [][IsRegistrar =>
         \A content \in Contents, connection \in Conns :
            (handle_basicmessages(content, connection)
               /\ connection # admin_connection_id)
            => UNCHANGED <<pending_credentials, approval_responses>>
      ]_vars

\* an approval was recorded while a holder is connected: the approving
\* message may have come over the holder's connection
C24_Witness_RecordedWithHolderConnected ==
    /\ IsRegistrar
    /\ last.op = "handle_approval_response" /\ last.res = "recorded"
    /\ Get(pending_credentials, last.key).status = "approved"
    /\ admin_connection_id # None
    /\ get_holder_connection_id # None
    /\ get_holder_connection_id # admin_connection_id

\* ---------------------------------------------------------------- C25
\* the submit of approval_id awaits the return of its send-message POST
SubmitAwaited(approval_id) ==
    main_pc = "send_message_post" /\ main_local.approval_id = approval_id

\* C25: an approval response handled for an id whose request has been sent, or
\* is being sent (the submit awaits the return of its POST), is recorded: the
\* id has an entry in approval_responses after the handler's step.
C25_NoResponseLost ==
    [][IsRegistrar =>
         \A content \in Contents, connection \in Conns \cup {None} :
            (/\ handle_basicmessages(content, connection)
             /\ content.type = "credential_approval_response"
             /\ \/ Has(pending_credentials, content.approval_id)
                \/ SubmitAwaited(content.approval_id))
            => Has(approval_responses', content.approval_id)
      ]_vars

\* the response to the request being submitted was dropped, and the submit
\* has not returned yet
C25_Witness_DroppedWhileAwaited ==
    /\ IsRegistrar
    /\ last.op = "handle_approval_response" /\ last.res = "not_found"
    /\ SubmitAwaited(last.key)
    /\ ~Has(approval_responses, last.key)

\* ---------------------------------------------------------------- C26
\* C26: in every state of a registrar the ids of approval_responses are ids of
\* pending_credentials; a record is pending_approval exactly when its id has no
\* stored response, and approved exactly when the stored response says
\* approved; so every id the 'process approved credentials' command lists has
\* a record to look up.
C26_ResponsesMatchRecords ==
    IsRegistrar =>
      /\ Keys(approval_responses) \subseteq Keys(pending_credentials)
      /\ \A id \in Keys(pending_credentials) :
            LET status == Get(pending_credentials, id).status
            IN /\ status \in {"pending_approval", "approved", "rejected"}
               /\ status = "pending_approval" <=> ~Has(approval_responses, id)
               /\ status = "approved" <=> /\ Has(approval_responses, id)
                                          /\ Get(approval_responses, id).approved
      /\ \A i \in DOMAIN approved_credentials :
            Has(pending_credentials, approved_credentials[i])

\* one request is approved and listed while another still waits for its
\* response
C26_Witness_ApprovedAndPending ==
    /\ IsRegistrar
    /\ approved_credentials # <<>>
    /\ \E id \in Keys(pending_credentials) :
          /\ Get(pending_credentials, id).status = "pending_approval"
          /\ ~Has(approval_responses, id)
    /\ \E id \in Keys(pending_credentials) :
          /\ Get(pending_credentials, id).status = "approved"
          /\ Get(approval_responses, id).approved

\* ---------------------------------------------------------------- C27
\* C27: the admin sends at most one approval response per approval id: no two
\* successful sends carry the same id.
C27_AtMostOneResponsePerId ==
    script = "uni_admin_a" =>
      \A i \in DOMAIN responses, j \in DOMAIN responses :
         responses[i].approval_id = responses[j].approval_id => i = j

\* a second response for the same id has just been sent
C27_Witness_SecondResponseSent ==
    /\ script = "uni_admin_a"
    /\ last.op = "send_approval_response" /\ last.res = "sent"
    /\ Len(responses) = 2
    /\ responses[1].approval_id = last.key
    /\ responses[2].approval_id = last.key

\* ---------------------------------------------------------------- C28
\* C28: send_approval_response goes on to post the response only from a
\* connection lookup that returned state "active"; a lookup that returned
\* another state for the last time, or that failed, ends the command with
\* nothing sent and pending_approvals unchanged.
C28_SendsOnlyWhenActive ==
    [][script = "uni_admin_a" =>
         \A outcome \in CheckOutcomes :
            (send_approval_response_checked(outcome) /\ outcome # "active")
            => /\ main_pc' # "send_response_post"
               /\ UNCHANGED <<pending_approvals, responses>>
      ]_vars

\* the lookup failed and the command is about to post the response
C28_Witness_PostAfterFailedLookup ==
    /\ script = "uni_admin_a"
    /\ last.op = "send_approval_response" /\ last.res = "sending_unchecked"
    /\ main_pc = "send_response_post"
    /\ Has(pending_approvals, main_local.approval_id)

\* ---------------------------------------------------------------- C29
\* C29: in every state of a registrar the admin connection, when set, is not
\* the holder pointer (holder_connection_id, connection_id) and has no entry
\* in holder_connections.
C29_AdminNeverHolder ==
    (IsRegistrar /\ admin_connection_id # None) =>
       /\ holder_connection_id # admin_connection_id
       /\ connection_id # admin_connection_id
       /\ ~Has(holder_connections, admin_connection_id)

\* the lookup for the admin connection failed and the handler took it for the
\* holder
C29_Witness_AdminTakenForHolder ==
    /\ IsRegistrar
    /\ last = Did("handle_connections", admin_connection_id, "error")
    /\ holder_connection_id = admin_connection_id
    /\ script = "uni_reg_c" => ActiveIn(holder_connections, admin_connection_id)

\* ---------------------------------------------------------------- C30
\* C30: in uni_reg_c, when the handler of an 'active' event for a connection
\* that is not the admin's completes and a 'deleted' or 'abandoned' event for
\* the same connection was handled while it awaited its lookup, both events
\* are handled and the connection's holder entry is not active: it is absent
\* from the active holders.
C30_ClosedDuringLookupNotActive ==
    [][script = "uni_reg_c" =>
         \A c \in Conns, r \in LookupResults :
            (/\ handle_connections_resume(c, r)
             /\ classify(r) # "admin"
             /\ c \in closed_while_awaited)
            => /\ Has(holder_connections', c)
               /\ Get(holder_connections', c).status = "terminated"
               /\ c \notin Keys(SelectSeq(holder_connections',
                                          LAMBDA e : e.v.status = "active"))
      ]_vars

\* a 'deleted' or 'abandoned' event was handled for a connection that has
\* no holder entry yet, and the handler of its 'active' event still awaits the
\* lookup that will register it
C30_Witness_ClosedBeforeRegistered ==
    /\ script = "uni_reg_c"
    /\ \E c \in conn_tasks :
          /\ c \in closed_while_awaited
          /\ ~Has(holder_connections, c)
          /\ c # admin_connection_id

====
